---- MODULE Spec2Model ----
(***************************************************************************)
(* A model of wacom-keymapper (src/main.py): the script that locates a     *)
(* key-mapping file, parses it, resolves the tablet device with            *)
(* "xsetwacom --list devices", audits the device's mappings with           *)
(* "xsetwacom get" and offers to apply them with "xsetwacom set".          *)
(*                                                                         *)
(* Text whose characters matter (device names and types, expected and      *)
(* observed values, listing lines) is a sequence of one-token strings:     *)
(* " " is whitespace, "id:" and "type:" are the two literals of the        *)
(* listing format, "7" and "8" are digits, anything else is an ordinary    *)
(* character.  Identifiers that the program only passes along (property    *)
(* and parameter names, paths, prompt answers) are plain strings.          *)
(***************************************************************************)
EXTENDS Integers, Sequences, FiniteSets, TLC

VARIABLES
    pc,        \* position of the script: "tool", "find", "parse", "locate",
               \* "configure" (line 126), "prompt" (line 130), "done"
    outcome,   \* how the run ended: "" while running
    exitcode,  \* process exit status: -1 while running
    environ,   \* MY_WACOM_KEYMAP as read at line 30
    argv,      \* the optional positional argument
    file_,     \* line 171
    content,   \* what the mapping file holds when it is read at line 70
    dict_,     \* line 175
    listing,   \* stdout lines of "xsetwacom --list devices" (line 51)
    id_,       \* line 179
    log,       \* every external call issued so far, in order
    obs,       \* results of the reads of the latest check_map_ pass
    m_,        \* check_map_'s latest return value (_a of configure_map_)
    b_,        \* the latest answer to the prompt (_b of configure_map_)
    passes,    \* number of check_map_ passes so far
    prompts,   \* number of prompts issued since the latest pass
    applies,   \* number of times line 132 called apply_map_
    fs,        \* what is_file() answers for each path (line 148)
    report     \* the rows the latest check_map_ pass printed (lines 105-110)

vars == <<pc, outcome, exitcode, environ, argv, file_, content, dict_, listing,
          id_, log, obs, m_, b_, passes, prompts, applies, fs, report>>

(***************************************************************************)
(* Bounds of the model.                                                    *)
(***************************************************************************)
MaxRules == 3     \* rules per mapping document
MaxPrompts == 2   \* invalid answers accepted in a row at one prompt
MaxPasses == 2    \* check_map_ passes of one run
MaxLines == 3     \* lines of a device listing

(***************************************************************************)
(* Optional values (Python's None).                                        *)
(***************************************************************************)
None == [some |-> FALSE, v |-> <<>>]
Some(x) == [some |-> TRUE, v |-> x]
NoPath == [some |-> FALSE, v |-> ""]

(***************************************************************************)
(* str.strip(): leading and trailing whitespace removed.                   *)
(***************************************************************************)
IsSpace(c) == c = " "

RECURSIVE LStrip(_)
LStrip(s) ==
    IF s = <<>> THEN <<>>
    ELSE IF IsSpace(Head(s)) THEN LStrip(Tail(s)) ELSE s

RECURSIVE RStrip(_)
RStrip(s) ==
    IF s = <<>> THEN <<>>
    ELSE IF IsSpace(s[Len(s)]) THEN RStrip(SubSeq(s, 1, Len(s) - 1)) ELSE s

Strip(s) == RStrip(LStrip(s))

(***************************************************************************)
(* External calls.  Every call the program issues is appended to log as    *)
(* one record: op is "which", "is_file", "open", "list", "get", "set" or   *)
(* "input"; the other fields hold the call's arguments and, for "get",     *)
(* the exit status and standard output the tool answered with.             *)
(***************************************************************************)
Ev(op, id, prop, param, value, rc, stdout, text) ==
    [op |-> op, id |-> id, prop |-> prop, param |-> param, value |-> value,
     rc |-> rc, stdout |-> stdout, text |-> text]

WhichEv == Ev("which", <<>>, "", "", <<>>, 0, <<>>, "xsetwacom")
IsFileEv(path) == Ev("is_file", <<>>, "", "", <<>>, 0, <<>>, path)
OpenEv(path) == Ev("open", <<>>, "", "", <<>>, 0, <<>>, path)
ListEv == Ev("list", <<>>, "", "", <<>>, 0, <<>>, "")
InputEv == Ev("input", <<>>, "", "", <<>>, 0, <<>>, "")
\* the get command built without the device handle
GetEvNoHandle(id, rule, res) ==
    Ev("get", <<>>, rule.prop, rule.param, <<>>, res.rc, res.stdout, "")
\* ["xsetwacom", "get", id_, _a[0], _a[1]] and what it answered
GetEv(id, rule, res) ==
    Ev("get", id, rule.prop, rule.param, <<>>, res.rc, res.stdout, "")
\* ["xsetwacom", "set", id_, _a[0], _a[1], _a[2]]
SetEv(id, rule) == Ev("set", id, rule.prop, rule.param, rule.expected, 0, <<>>, "")

CountOp(l, op) == Cardinality({i \in DOMAIN l : l[i].op = op})

(***************************************************************************)
(* device_matcher_: ^(.+?)\s+id:\s+(\d+)\s+type:\s+(.*?)\s*$ applied with  *)
(* fullmatch to one line.                                                  *)
(***************************************************************************)
Digits == {"7", "8"}

\* length of the longest run of tokens satisfying a class, from index i of s
RECURSIVE SpaceRun(_, _)
SpaceRun(s, i) ==
    IF i > Len(s) \/ ~IsSpace(s[i]) THEN 0 ELSE 1 + SpaceRun(s, i + 1)

RECURSIVE DigitRun(_, _)
DigitRun(s, i) ==
    IF i > Len(s) \/ s[i] \notin Digits THEN 0 ELSE 1 + DigitRun(s, i + 1)

NoMatch == [ok |-> FALSE, name |-> <<>>, id |-> <<>>, type |-> <<>>]

\* \s+id:\s+(\d+)\s+type:\s+(.*?)\s*$ matched against the line from index i
\* on.  All but the last of its pieces are followed by a token outside their
\* class, so each takes its longest run; the lazy (.*?) before \s*$ is the
\* rest without its trailing whitespace.
MatchTail(s, i) ==
    LET w1 == SpaceRun(s, i)
        p1 == i + w1                    \* "id:"
        w2 == SpaceRun(s, p1 + 1)
        p2 == p1 + 1 + w2               \* digits
        d  == DigitRun(s, p2)
        p3 == p2 + d
        w3 == SpaceRun(s, p3)
        p4 == p3 + w3                   \* "type:"
        w4 == SpaceRun(s, p4 + 1)
        p5 == p4 + 1 + w4               \* type
    IN  IF /\ w1 >= 1
           /\ p1 <= Len(s) /\ s[p1] = "id:"
           /\ w2 >= 1
           /\ d >= 1
           /\ w3 >= 1
           /\ p4 <= Len(s) /\ s[p4] = "type:"
           /\ w4 >= 1
        THEN [ok |-> TRUE, name |-> <<>>, id |-> SubSeq(s, p2, p3 - 1),
              type |-> RStrip(SubSeq(s, p5, Len(s)))]
        ELSE NoMatch

\* (.+?) is lazy: the shortest non-empty prefix after which the rest matches
RECURSIVE MatchFrom(_, _)
MatchFrom(s, k) ==
    IF k >= Len(s) THEN NoMatch
    ELSE LET t == MatchTail(s, k + 1)
         IN  IF t.ok THEN [t EXCEPT !.name = SubSeq(s, 1, k)]
             ELSE MatchFrom(s, k + 1)

device_matcher_(line) == MatchFrom(line, 1)

(***************************************************************************)
(* get_device_id_: the loop of lines 56-61 over the listing's lines.       *)
(***************************************************************************)
RECURSIVE ScanDevices(_, _, _, _)
ScanDevices(lines, i, name_, type_) ==
    IF i > Len(lines) THEN None
    ELSE LET d == device_matcher_(lines[i])
         IN  IF d.ok /\ d.name = name_ /\ d.type = type_
             THEN Some(d.id)
             ELSE ScanDevices(lines, i + 1, name_, type_)

\* get_device_id_ comparing names and types without regard to case
Lower(c) == IF c = "P" THEN "p" ELSE IF c = "A" THEN "a" ELSE c
LowerAll(s) == [i \in DOMAIN s |-> Lower(s[i])]
RECURSIVE ScanDevicesNoCase(_, _, _, _)
ScanDevicesNoCase(lines, i, name_, type_) ==
    IF i > Len(lines) THEN None
    ELSE LET d == device_matcher_(lines[i])
         IN  IF d.ok /\ LowerAll(d.name) = LowerAll(name_)
                     /\ LowerAll(d.type) = LowerAll(type_)
             THEN Some(d.id)
             ELSE ScanDevicesNoCase(lines, i + 1, name_, type_)
get_device_id_NoCase(lines, name_, type_) == ScanDevicesNoCase(lines, 1, name_, type_)

\* get_device_id_ giving up at the first line the pattern does not match
RECURSIVE ScanDevicesStopAtMalformed(_, _, _, _)
ScanDevicesStopAtMalformed(lines, i, name_, type_) ==
    IF i > Len(lines) THEN None
    ELSE LET d == device_matcher_(lines[i])
         IN  IF ~d.ok THEN None
             ELSE IF d.name = name_ /\ d.type = type_ THEN Some(d.id)
             ELSE ScanDevicesStopAtMalformed(lines, i + 1, name_, type_)
get_device_id_StopAtMalformed(lines, name_, type_) ==
    ScanDevicesStopAtMalformed(lines, 1, name_, type_)

get_device_id_(lines, name_, type_) == ScanDevices(lines, 1, name_, type_)

(***************************************************************************)
(* The value json.load yields.  kind is "object", "array", "string",       *)
(* "number", "boolean" or "null"; an object has its set of keys and the    *)
(* values of name, type and map; an array has its elements; a string has   *)
(* the words it is made of (a field name is a substring of it exactly when *)
(* it is one of the words).  A file that cannot be opened or decoded has   *)
(* kind "unreadable" or "malformed" and never reaches json.load's result.  *)
(***************************************************************************)
JV(kind, keys, items, name, type, map) ==
    [kind |-> kind, keys |-> keys, items |-> items,
     name |-> name, type |-> type, map |-> map]

JNull == JV("null", {}, <<>>, <<>>, <<>>, <<>>)

RequiredFields == <<"name", "type", "map">>

\* Python's  _b in _a : key of a dict, element of a list, substring of a str;
\* TypeError for int, bool and None
InRaises(a) == a.kind \in {"number", "boolean", "null"}
In(b, a) ==
    CASE a.kind = "object" -> b \in a.keys
      [] a.kind = "array"  -> \E i \in DOMAIN a.items : a.items[i] = b
      [] a.kind = "string" -> \E i \in DOMAIN a.items : a.items[i] = b
      [] OTHER -> FALSE

\* the loop of lines 75-78 from field i on: "None", "value" or "TypeError"
RECURSIVE FieldLoop(_, _)
FieldLoop(a, i) ==
    IF i > Len(RequiredFields) THEN "value"
    ELSE IF InRaises(a) THEN "TypeError"
    ELSE IF ~In(RequiredFields[i], a) THEN "None"
    ELSE FieldLoop(a, i + 1)

\* parse_mapping_file_: the bare except of lines 69-74 covers open and
\* json.load only
parse_mapping_file_(c) ==
    IF c.kind \in {"unreadable", "malformed"} THEN "None"
    ELSE FieldLoop(c, 1)

\* not dict_ (line 176) for a value parse_mapping_file_ returned
Falsy(a) ==
    CASE a.kind = "object" -> a.keys = {}
      [] a.kind \in {"array", "string"} -> a.items = <<>>
      [] a.kind = "null" -> TRUE
      [] OTHER -> FALSE

\* dict_["name"] (lines 179, 183) raises TypeError unless dict_ is a dict
SubscriptRaises(a) == a.kind # "object"

(***************************************************************************)
(* default_map_locations_ and find_mapping_file_.                          *)
(***************************************************************************)
\* default_map_locations_ with the environment variable's path tried first
default_map_locations_EnvFirst(env) == <<env, Some("home"), Some("bundled")>>

default_map_locations_(env) == <<Some("home"), env, Some("bundled")>>

\* args_.file_ with the default locations tried after the argument
ArgsFileFallback(arg, env) ==
    IF arg.some THEN <<arg>> \o default_map_locations_(env)
    ELSE default_map_locations_(env)

\* args_.file_ : the argument when given (a str), else the default list
ArgsFile(arg, env) ==
    IF arg.some THEN <<arg>> ELSE default_map_locations_(env)

\* the loop of lines 144-151 from candidate i on; exists answers is_file()
RECURSIVE FindLoop(_, _, _)
FindLoop(list, i, exists) ==
    IF i > Len(list) THEN [file |-> NoPath, probes |-> <<>>]
    ELSE IF ~list[i].some \/ list[i].v = "" THEN FindLoop(list, i + 1, exists)
    ELSE IF exists[list[i].v]
         THEN [file |-> list[i], probes |-> <<IsFileEv(list[i].v)>>]
         ELSE LET r == FindLoop(list, i + 1, exists)
              IN  [r EXCEPT !.probes = <<IsFileEv(list[i].v)>> \o @]

find_mapping_file_(list, exists) == FindLoop(list, 1, exists)

(***************************************************************************)
(* Mapping rules: [property, parameter, expectedValue, label?].            *)
(***************************************************************************)
Rule(prop, param, expected, label) ==
    [prop |-> prop, param |-> param, expected |-> expected, label |-> label]

(***************************************************************************)
(* apply_map_(id_, map_): one "xsetwacom set" per rule, in order; the      *)
(* result of subprocess.run is dropped.                                    *)
(***************************************************************************)
apply_map_(id, map) == [i \in DOMAIN map |-> SetEv(id, map[i])]

\* the keyword arguments apply_map_ declares (line 81) and the ones line 132
\* passes; a keyword the function does not declare raises TypeError before
\* its body runs
ApplyMapParams == {"id_", "map_"}
ApplyCallKwargs == {"id_", "map_", "name_", "type_"}
ApplyCallRaises == ~(ApplyCallKwargs \subseteq ApplyMapParams)

(***************************************************************************)
(* check_map_(id_, map_): one "xsetwacom get" per rule, in order, with no  *)
(* early exit; res[i] is what the i-th read answered.                      *)
(***************************************************************************)
\* line 104 without the two strip() calls
RuleMatchesNoStrip(stdout, rule) == stdout = rule.expected

\* line 104 with strip() on the observed value only
RuleMatchesStripObserved(stdout, rule) == Strip(stdout) = rule.expected

\* line 104
RuleMatches(stdout, rule) == Strip(stdout) = Strip(rule.expected)

\* lines 105-110: the row printed for one rule; a YES row shows the label
\* when the rule has one, a NO row shows the raw observed value
Row(rule, stdout) ==
    IF RuleMatches(stdout, rule)
    THEN [yes |-> TRUE, prop |-> rule.prop, param |-> rule.param,
          expected |-> rule.expected, observed |-> <<>>, label |-> rule.label]
    ELSE [yes |-> FALSE, prop |-> rule.prop, param |-> rule.param,
          expected |-> rule.expected, observed |-> stdout,
          label |-> [some |-> FALSE, v |-> ""]]

\* check_map_ leaving the loop at the first mismatched rule
FirstMismatch(map, res) ==
    LET bad == {i \in DOMAIN map : ~RuleMatches(res[i].stdout, map[i])}
    IN  IF bad = {} THEN Len(map) ELSE CHOOSE i \in bad : \A j \in bad : i <= j
check_map_ShortCircuit(id, map, res) ==
    [calls |-> [i \in 1..FirstMismatch(map, res) |-> GetEv(id, map[i], res[i])],
     rows |-> [i \in 1..FirstMismatch(map, res) |-> Row(map[i], res[i].stdout)],
     m |-> \A i \in DOMAIN map : RuleMatches(res[i].stdout, map[i])]

\* check_map_ assigning _m on every rule, so that the last rule decides
check_map_LastWins(id, map, res) ==
    [calls |-> [i \in DOMAIN map |-> GetEv(id, map[i], res[i])],
     rows |-> [i \in DOMAIN map |-> Row(map[i], res[i].stdout)],
     m |-> map = <<>> \/ RuleMatches(res[Len(map)].stdout, map[Len(map)])]

check_map_(id, map, res) ==
    [calls |-> [i \in DOMAIN map |-> GetEv(id, map[i], res[i])],
     rows |-> [i \in DOMAIN map |-> Row(map[i], res[i].stdout)],
     m |-> \A i \in DOMAIN map : RuleMatches(res[i].stdout, map[i])]

\* lines 131-135 with "n" not recognised
PromptBranchNoDecline(b) == IF b = "y" THEN "apply" ELSE "again"
\* lines 131-135 applying on every answer but "n"
PromptBranchDefaultAccept(b) == IF b = "n" THEN "return" ELSE "apply"
\* lines 131-135 taking the empty answer for "n"
PromptBranchEmptyIsNo(b) ==
    IF b = "y" THEN "apply" ELSE IF b \in {"n", ""} THEN "return" ELSE "again"

\* lines 131-135: what configure_map_ does with the answer _b
PromptBranch(b) ==
    IF b = "y" THEN "apply" ELSE IF b = "n" THEN "return" ELSE "again"

(***************************************************************************)
(* The inputs the environment can supply.                                  *)
(***************************************************************************)
SeqsUpTo(S, n) == UNION {[1..k -> S] : k \in 0..n}

NamePA == <<"P", " ", "A">>
NamePa == <<"p", " ", "a">>
TypeT == <<"T">>
TypeS == <<"S">>
Names == {NamePA, NamePa}
Types == {TypeT, TypeS}

NoLabel == [some |-> FALSE, v |-> ""]
R1 == Rule("Button", "1", <<"3">>, NoLabel)
R2 == Rule("Button", "2", <<" ">>, [some |-> TRUE, v |-> "blank"])
RulePool == {R1, R2}
Maps == SeqsUpTo(RulePool, MaxRules)

\* what one "xsetwacom get" can answer: an exit status and its stdout
ReadResults ==
    [rc : {0, 1}, stdout : {<<>>, <<"3">>, <<"3", " ">>, <<"4">>}]
MainReads ==
    {[rc |-> 0, stdout |-> <<"3">>], [rc |-> 0, stdout |-> <<"4">>],
     [rc |-> 1, stdout |-> <<>>]}

Doc(name, type, map) == JV("object", {"name", "type", "map"}, <<>>, name, type, map)

\* a mapping file's possible contents
BadFiles ==
    {JV("unreadable", {}, <<>>, <<>>, <<>>, <<>>),
     JV("malformed", {}, <<>>, <<>>, <<>>, <<>>),
     JV("number", {}, <<>>, <<>>, <<>>, <<>>),
     JV("boolean", {}, <<>>, <<>>, <<>>, <<>>),
     JNull}
    \cup {JV("object", k, <<>>, NamePA, TypeT, <<R1>>) :
            k \in (SUBSET {"name", "type", "map"}) \ {{"name", "type", "map"}}}
    \cup {JV(kind, {}, items, <<>>, <<>>, <<>>) :
            kind \in {"array", "string"},
            items \in {<<>>, <<"name">>, <<"name", "type", "map">>,
                       <<"map", "x", "type", "name">>}}
MainFiles ==
    BadFiles \cup {Doc(n, TypeT, m) : n \in Names, m \in {<<>>, <<R1>>, <<R1, R2>>}}

\* one line of "xsetwacom --list devices"
Line(name, id, type) == name \o <<" ", "id:", " ">> \o id \o <<" ", "type:", " ">> \o type
LinePool ==
    {Line(n, i, t) : n \in Names, i \in {<<"7">>, <<"8">>}, t \in Types}
    \cup {NamePA \o <<" ", " ", "id:", " ", "7", "8", " ", " ", "type:", " ", " ", "T", " ">>,
          NamePA \o <<" ", "id:", "7", " ", "type:", " ", "T">>,
          NamePA \o <<" ", "id:", " ", "7", " ", "type:">>,
          NamePA \o <<" ", "id:", " ", "type:", " ", "T">>,
          NamePA \o <<" ", "T">>,
          <<>>}
Listings == SeqsUpTo(LinePool, MaxLines)
MainListings ==
    {<<>>,
     <<Line(NamePA, <<"7">>, TypeT)>>,
     <<Line(NamePa, <<"8">>, TypeT), Line(NamePA, <<"7">>, TypeT)>>}

Paths == {"home", "env", "bundled", "arg"}
Answers == {"y", "n", "", "Y", "yes", "y "}

(***************************************************************************)
(* The script, lines 155-183.                                              *)
(***************************************************************************)
Init ==
    /\ pc = "tool"
    /\ outcome = ""
    /\ exitcode = -1
    /\ environ \in {NoPath, [some |-> TRUE, v |-> "env"]}
    /\ argv \in {NoPath, [some |-> TRUE, v |-> "arg"]}
    /\ file_ = NoPath
    /\ content = JNull
    /\ dict_ = JNull
    /\ listing = <<>>
    /\ id_ = None
    /\ log = <<>>
    /\ obs = <<>>
    /\ m_ = FALSE
    /\ b_ = ""
    /\ passes = 0
    /\ prompts = 0
    /\ applies = 0
    /\ fs \in [Paths -> BOOLEAN]
    /\ report = <<>>

\* exit() at lines 157, 173, 177, 181, or the end of the script
Exit(what) == pc' = "done" /\ outcome' = what /\ exitcode' = 0
\* an exception nothing catches: traceback, exit status 1
Raise(what) == pc' = "done" /\ outcome' = what /\ exitcode' = 1

\* lines 155-157
ToolCheck ==
    /\ pc = "tool"
    /\ \E present \in BOOLEAN :
         IF present THEN pc' = "find" /\ UNCHANGED <<outcome, exitcode>>
         ELSE Exit("ToolMissing")
    /\ log' = Append(log, WhichEv)
    /\ UNCHANGED <<environ, argv, file_, content, dict_, listing, id_, obs, m_,
                   b_, passes, prompts, applies, fs, report>>

\* lines 159-173
FindFile ==
    /\ pc = "find"
    /\ LET r == find_mapping_file_(ArgsFile(argv, environ), fs)
         IN  /\ file_' = r.file
             /\ log' = log \o r.probes
             /\ IF r.file.some THEN pc' = "parse" /\ UNCHANGED <<outcome, exitcode>>
                ELSE Exit("NoMappingFileFound")
    /\ UNCHANGED <<environ, argv, content, dict_, listing, id_, obs, m_, b_,
                   passes, prompts, applies, fs, report>>

\* lines 175-177
ParseFile(files) ==
    /\ pc = "parse"
    /\ \E c \in files :
         LET r == parse_mapping_file_(c)
             d == IF r = "value" THEN c ELSE JNull
         IN  /\ content' = c
             /\ IF r = "TypeError"
                THEN Raise("TypeError") /\ dict_' = dict_
                ELSE /\ dict_' = d
                     /\ IF Falsy(d) THEN Exit("InvalidMappingFile")
                        ELSE pc' = "locate" /\ UNCHANGED <<outcome, exitcode>>
    /\ log' = Append(log, OpenEv(file_.v))
    /\ UNCHANGED <<environ, argv, file_, listing, id_, obs, m_, b_, passes,
                   prompts, applies, fs, report>>

\* lines 179-181
Locate(listings) ==
    /\ pc = "locate"
    /\ IF SubscriptRaises(dict_)
       THEN Raise("TypeError") /\ UNCHANGED <<listing, id_, log>>
       ELSE \E l \in listings :
              LET r == get_device_id_(l, dict_.name, dict_.type)
              IN  /\ listing' = l
                  /\ id_' = r
                  /\ log' = Append(log, ListEv)
                  /\ IF r.some THEN pc' = "configure" /\ UNCHANGED <<outcome, exitcode>>
                     ELSE Exit("DeviceNotFound")
    /\ UNCHANGED <<environ, argv, file_, content, dict_, obs, m_, b_, passes,
                   prompts, applies, fs, report>>

\* configure_map_, lines 125-128: one check_map_ pass and its test
ConfigureCheck(reads) ==
    /\ pc = "configure"
    /\ passes < MaxPasses
    /\ \E res \in [DOMAIN dict_.map -> reads] :
         LET r == check_map_(id_.v, dict_.map, res)
         IN  /\ log' = log \o r.calls
             /\ obs' = res
             /\ report' = r.rows
             /\ m_' = r.m
             /\ IF r.m THEN Exit("Converged")
                ELSE pc' = "prompt" /\ UNCHANGED <<outcome, exitcode>>
    /\ passes' = passes + 1
    /\ prompts' = 0
    /\ UNCHANGED <<environ, argv, file_, content, dict_, listing, id_, b_, applies, fs>>

\* configure_map_, lines 130-135: one prompt and what follows the answer
Prompt ==
    /\ pc = "prompt"
    /\ \E b \in Answers :
         LET branch == PromptBranch(b)
         IN  /\ branch = "again" => prompts < MaxPrompts
             /\ b_' = b
             /\ prompts' = prompts + 1
             /\ applies' = IF branch = "apply" THEN applies + 1 ELSE applies
             /\ log' = Append(log, InputEv) \o
                       (IF branch = "apply" /\ ~ApplyCallRaises
                        THEN apply_map_(id_.v, dict_.map) ELSE <<>>)
             /\ CASE branch = "apply" ->
                       IF ApplyCallRaises THEN Raise("TypeError")
                       ELSE pc' = "configure" /\ UNCHANGED <<outcome, exitcode>>
                  [] branch = "return" -> Exit("Abandoned")
                  [] OTHER -> pc' = "prompt" /\ UNCHANGED <<outcome, exitcode>>
    /\ UNCHANGED <<environ, argv, file_, content, dict_, listing, id_, obs, m_, passes,
                   fs, report>>

Next ==
    \/ ToolCheck
    \/ FindFile
    \/ ParseFile(MainFiles)
    \/ Locate(MainListings)
    \/ ConfigureCheck(MainReads)
    \/ Prompt

Spec == Init /\ [][Next]_vars

(***************************************************************************)
(* configure_map_ on its own: entered with a resolved device and any       *)
(* mapping document of up to MaxRules rules.                               *)
(***************************************************************************)
InitReconcile ==
    /\ pc = "configure"
    /\ outcome = ""
    /\ exitcode = -1
    /\ environ = NoPath
    /\ argv = [some |-> TRUE, v |-> "arg"]
    /\ file_ = [some |-> TRUE, v |-> "arg"]
    /\ dict_ \in {Doc(NamePA, TypeT, m) : m \in Maps}
    /\ content = dict_
    /\ listing = <<Line(NamePA, <<"7">>, TypeT)>>
    /\ id_ = Some(<<"7">>)
    /\ log = <<>>
    /\ obs = <<>>
    /\ m_ = FALSE
    /\ b_ = ""
    /\ passes = 0
    /\ prompts = 0
    /\ applies = 0
    /\ fs = [p \in Paths |-> p = "arg"]
    /\ report = <<>>

NextReconcile == ConfigureCheck(ReadResults) \/ Prompt

SpecReconcile == InitReconcile /\ [][NextReconcile]_vars

(***************************************************************************)
(* get_device_id_ on its own: called with any descriptor on any listing of *)
(* up to MaxLines lines.                                                   *)
(***************************************************************************)
InitLocator ==
    /\ pc = "locate"
    /\ outcome = ""
    /\ exitcode = -1
    /\ environ = NoPath
    /\ argv = [some |-> TRUE, v |-> "arg"]
    /\ file_ = [some |-> TRUE, v |-> "arg"]
    /\ dict_ \in {Doc(n, t, <<>>) : n \in Names, t \in Types}
    /\ content = dict_
    /\ listing = <<>>
    /\ id_ = None
    /\ log = <<>>
    /\ obs = <<>>
    /\ m_ = FALSE
    /\ b_ = ""
    /\ passes = 0
    /\ prompts = 0
    /\ applies = 0
    /\ fs = [p \in Paths |-> p = "arg"]
    /\ report = <<>>

NextLocator == Locate(Listings)

SpecLocator == InitLocator /\ [][NextLocator]_vars

(***************************************************************************)
(* apply_map_ on its own: called with a device handle and any rule list of *)
(* up to MaxRules rules; rcs[i] is the exit status of the i-th set         *)
(* command, which subprocess.run returns and line 88 drops.                *)
(***************************************************************************)
InitApply ==
    /\ pc = "apply"
    /\ outcome = ""
    /\ exitcode = -1
    /\ environ = NoPath
    /\ argv = [some |-> TRUE, v |-> "arg"]
    /\ file_ = [some |-> TRUE, v |-> "arg"]
    /\ dict_ \in {Doc(NamePA, TypeT, m) : m \in Maps}
    /\ content = dict_
    /\ id_ \in {Some(<<"7">>), Some(<<"8">>)}
    /\ listing = <<Line(NamePA, id_.v, TypeT)>>
    /\ log = <<>>
    /\ obs = <<>>
    /\ m_ = FALSE
    /\ b_ = ""
    /\ passes = 0
    /\ prompts = 0
    /\ applies = 0
    /\ fs = [p \in Paths |-> p = "arg"]
    /\ report = <<>>

WriteCodes == {0, 1}

\* apply_map_ run with check=True: the first failing set raises
ApplyMapStopsOnFailure ==
    /\ pc = "apply"
    /\ \E rcs \in [DOMAIN dict_.map -> WriteCodes] :
         LET bad == {i \in DOMAIN rcs : rcs[i] # 0}
             n == IF bad = {} THEN Len(dict_.map)
                  ELSE CHOOSE i \in bad : \A j \in bad : i <= j
         IN  /\ log' = log \o [i \in 1..n |->
                         [apply_map_(id_.v, dict_.map)[i] EXCEPT !.rc = rcs[i]]]
             /\ IF bad = {} THEN pc' = "applied" /\ UNCHANGED <<outcome, exitcode>>
                ELSE Raise("CalledProcessError")
    /\ UNCHANGED <<environ, argv, file_, content, dict_, listing, id_, obs, m_,
                   b_, passes, prompts, applies, fs, report>>

\* lines 87-88, all of apply_map_'s body
ApplyMap ==
    /\ pc = "apply"
    /\ \E rcs \in [DOMAIN dict_.map -> WriteCodes] :
         log' = log \o [i \in DOMAIN dict_.map |->
                   [apply_map_(id_.v, dict_.map)[i] EXCEPT !.rc = rcs[i]]]
    /\ pc' = "applied"
    /\ UNCHANGED <<outcome, exitcode, environ, argv, file_, content, dict_,
                   listing, id_, obs, m_, b_, passes, prompts, applies, fs, report>>

NextApply == ApplyMap

SpecApply == InitApply /\ [][NextApply]_vars

(***************************************************************************)
(* Properties.                                                             *)
(***************************************************************************)
TheMap == dict_.map
Trimmed(i) == Strip(obs[i].stdout) = Strip(TheMap[i].expected)
Audited == passes >= 1 /\ DOMAIN obs = DOMAIN TheMap
NoneOf(ops) == \A i \in DOMAIN log : log[i].op \notin ops

\* C1: once the user has answered "y", the log continues after that prompt
\* with exactly one set command per rule of the document, in document order,
\* and the run goes on to a new check_map_ pass.
C1_AcceptWritesEveryRule ==
    (b_ = "y" /\ applies >= 1) =>
        /\ \E k \in DOMAIN log :
             /\ log[k].op = "input"
             /\ Len(log) >= k + Len(TheMap)
             /\ \A i \in DOMAIN TheMap : log[k + i] = SetEv(id_.v, TheMap[i])
             /\ \A j \in DOMAIN log : j > k + Len(TheMap) => log[j].op = "get"
        /\ pc = "configure" \/ passes >= 2

\* C2: when every rule's trimmed observed value equals its trimmed expected
\* value on the first pass, configure_map_ has returned True after that pass,
\* and the calls issued are exactly one get per rule in document order: no
\* prompt and no set.
C2_AllMatchedConvergesAtOnce ==
    (Audited /\ passes = 1 /\ \A i \in DOMAIN TheMap : Trimmed(i)) =>
        /\ pc = "done" /\ outcome = "Converged" /\ m_ = TRUE
        /\ log = [i \in DOMAIN TheMap |-> GetEv(id_.v, TheMap[i], obs[i])]
        /\ prompts = 0 /\ applies = 0

C2_Witness ==
    /\ outcome = "Converged" /\ passes = 1 /\ Len(TheMap) = 2
    /\ \E i \in DOMAIN obs : obs[i].stdout # TheMap[i].expected

\* C3: once the user has answered "n" to a mismatch, configure_map_ has
\* returned False (Abandoned) and the declined prompt is the last call of
\* the run: no get and no set follows it, however many invalid answers came
\* before.
C3_DeclineAbandons ==
    b_ = "n" =>
        /\ pc = "done" /\ outcome = "Abandoned" /\ m_ = FALSE
        /\ \E i \in DOMAIN TheMap : ~Trimmed(i)
        /\ log # <<>> /\ log[Len(log)].op = "input"

C3_Witness == b_ = "n" /\ outcome = "Abandoned" /\ prompts >= 3

\* C4: configure_map_ stops only as Converged, after a pass in which all
\* rules matched, or as Abandoned, after the answer "n" to a mismatch.
C4_TwoTerminalOutcomes ==
    pc = "done" =>
        \/ outcome = "Converged" /\ m_ = TRUE
        \/ outcome = "Abandoned" /\ m_ = FALSE /\ b_ = "n"

\* C5: no set command is issued and apply_map_ is not called before the
\* first check_map_ pass, and every step that calls apply_map_ or issues a
\* set command is the answer "y" to a prompt that follows a pass with at
\* least one mismatched rule.
C5_WriteOnlyAfterAuditAndAccept ==
    /\ [](passes = 0 => (NoneOf({"set"}) /\ applies = 0))
    /\ [][(CountOp(log', "set") > CountOp(log, "set") \/ applies' > applies) =>
            /\ pc = "prompt" /\ Audited
            /\ \E i \in DOMAIN TheMap : ~Trimmed(i)
            /\ b_' = "y"]_vars

C5_Witness ==
    /\ applies = 1 /\ b_ = "y" /\ passes = 1
    /\ \E i \in DOMAIN TheMap : ~Trimmed(i)

\* C6: a prompt step whose answer is neither "y" nor "n" leaves the run at
\* the prompt, adds only that prompt to the calls issued (no get, no set),
\* does not call apply_map_ and does not end the run.
C6_InvalidAnswerReprompts ==
    [][(pc = "prompt" /\ log' # log /\ b_' \notin {"y", "n"}) =>
          /\ pc' = "prompt" /\ outcome' = "" /\ exitcode' = -1
          /\ log' = Append(log, InputEv)
          /\ applies' = applies /\ passes' = passes]_vars

C6_Witness == pc = "prompt" /\ prompts = 2 /\ b_ = "y "

\* C7: when a read of the latest pass failed (nonzero exit status and
\* nothing on stdout), the pass reported a mismatch and the run did not end
\* Converged, whatever the rule's expected value.
FailedRead(r) == r.rc # 0 /\ r.stdout = <<>>
C7_FailedReadIsMismatch ==
    (Audited /\ \E i \in DOMAIN obs : FailedRead(obs[i])) =>
        m_ = FALSE /\ outcome # "Converged"

\* The file conditions of sections 4.2 and 7.
FileRead == \E i \in DOMAIN log : log[i].op = "open"
ValidDocument(c) == c.kind = "object" /\ {"name", "type", "map"} \subseteq c.keys

\* C8: a run in which a fatal condition occurred has ended with exit status
\* 0 and has not started any later stage: ToolMissing before any file
\* lookup, NoMappingFileFound and InvalidMappingFile before the device
\* listing, DeviceNotFound before any get, set or prompt.
C8_FatalEndsCleanly ==
    /\ outcome = "ToolMissing" => exitcode = 0 /\ log = <<WhichEv>>
    /\ outcome = "NoMappingFileFound" =>
         exitcode = 0 /\ NoneOf({"open", "list", "get", "set", "input"})
    /\ (FileRead /\ ~ValidDocument(content)) =>
         /\ pc = "done" /\ exitcode = 0
         /\ NoneOf({"list", "get", "set", "input"})
    /\ outcome = "DeviceNotFound" =>
         exitcode = 0 /\ NoneOf({"get", "set", "input"})

\* C9: once the file has been read, parse_mapping_file_ has returned None
\* and the run has ended as InvalidMappingFile with nothing raised, unless
\* the content is an object holding name, type and map, which is accepted.
C9_InvalidFileYieldsNone ==
    FileRead =>
        IF ValidDocument(content) THEN dict_ = content
        ELSE pc = "done" /\ outcome = "InvalidMappingFile" /\ dict_ = JNull

\* C10: get_device_id_ returns the id of the first listing line whose parsed
\* name and type both equal the descriptor's, token for token, and returns
\* None, ending the run as DeviceNotFound, exactly when there is no such line.
Hit(i) ==
    LET d == device_matcher_(listing[i])
    IN  d.ok /\ d.name = dict_.name /\ d.type = dict_.type
C10_FirstExactMatch ==
    pc # "locate" =>
        /\ id_.some <=> \E i \in DOMAIN listing : Hit(i)
        /\ ~id_.some <=> outcome = "DeviceNotFound"
        /\ \A i \in DOMAIN listing :
             (Hit(i) /\ \A j \in 1..(i - 1) : ~Hit(j)) =>
                 id_ = Some(device_matcher_(listing[i]).id)

C10_Witness ==
    /\ pc = "configure" /\ dict_.name = NamePA /\ dict_.type = TypeT
    /\ listing = <<Line(NamePa, <<"8">>, TypeT), Line(NamePA, <<"7">>, TypeT)>>
    /\ id_ = Some(<<"7">>)

\* C11: a listing line the pattern does not match is passed over: when the
\* first line that matches the descriptor comes after malformed lines only,
\* get_device_id_ returns that line's id, and a listing of malformed lines
\* alone ends the run as DeviceNotFound with exit status 0, nothing raised.
Malformed(i) == ~device_matcher_(listing[i]).ok
C11_MalformedLinesSkipped ==
    pc # "locate" =>
        /\ \A i \in DOMAIN listing :
             (Hit(i) /\ \A j \in 1..(i - 1) : Malformed(j)) =>
                 /\ pc = "configure"
                 /\ id_ = Some(device_matcher_(listing[i]).id)
        /\ (\A i \in DOMAIN listing : Malformed(i)) =>
             /\ id_ = None /\ pc = "done"
             /\ outcome = "DeviceNotFound" /\ exitcode = 0

C11_Witness ==
    /\ pc = "configure" /\ Len(listing) = 3
    /\ Malformed(1) /\ Malformed(2) /\ listing[1] # listing[2]
    /\ Hit(3) /\ id_ = Some(<<"8">>)

\* C12: after a pass, the row printed for each rule is a YES row exactly
\* when the observed value and the expected value are equal once leading and
\* trailing whitespace is removed from both, for rules with and without a
\* label alike.
C12_VerdictIsTrimmedEquality ==
    Audited =>
        /\ DOMAIN report = DOMAIN TheMap
        /\ \A i \in DOMAIN TheMap :
             report[i].yes <=> Strip(obs[i].stdout) = Strip(TheMap[i].expected)

C12_Witness ==
    /\ Audited /\ Len(TheMap) = 3
    /\ \E i, j, k \in DOMAIN TheMap :
         /\ TheMap[i] = R1 /\ obs[i].stdout = <<"3", " ">> /\ report[i].yes
         /\ TheMap[j] = R2 /\ obs[j].stdout = <<>> /\ report[j].yes
         /\ ~report[k].yes

\* C14: every check_map_ pass adds to the calls issued exactly one get per
\* rule of the document, in document order, each for the rule's property
\* and parameter, whether or not earlier rules of the pass mismatched, and
\* nothing else: no set, no prompt.
C14_PassReadsEveryRuleOnce ==
    [][passes' = passes + 1 =>
          /\ Len(log') = Len(log) + Len(TheMap)
          /\ SubSeq(log', 1, Len(log)) = log
          /\ \A i \in DOMAIN TheMap :
               LET e == log'[Len(log) + i]
               IN  /\ e.op = "get"
                   /\ e.prop = TheMap[i].prop /\ e.param = TheMap[i].param
                   /\ e.stdout = obs'[i].stdout /\ e.rc = obs'[i].rc
          /\ applies' = applies]_vars

C14_Witness ==
    /\ passes = 1 /\ pc = "prompt" /\ Len(TheMap) = 3
    /\ ~report[1].yes
    /\ CountOp(log, "get") = 3
    /\ log[3].op = "get" /\ log[3].param = TheMap[3].param

\* C15: check_map_ returns True exactly when every rule got a YES row in
\* that pass, so one mismatched rule at any position makes it False; for a
\* document without rules it returns True with no get issued.
C15_ResultIsConjunction ==
    Audited =>
        /\ m_ <=> \A i \in DOMAIN report : report[i].yes
        /\ TheMap = <<>> => (m_ /\ outcome = "Converged" /\ NoneOf({"get"}))

C15_Witness ==
    /\ Audited /\ Len(TheMap) = 3
    /\ report[1].yes /\ ~report[2].yes /\ report[3].yes
    /\ m_ = FALSE /\ pc = "prompt"

\* The paths is_file() was asked about, in the order of the calls.
RECURSIVE ProbedFrom(_)
ProbedFrom(l) ==
    IF l = <<>> THEN <<>>
    ELSE IF Head(l).op = "is_file" THEN <<Head(l).text>> \o ProbedFrom(Tail(l))
    ELSE ProbedFrom(Tail(l))
Probed == ProbedFrom(log)
Looked == pc \notin {"tool", "find"} /\ outcome # "ToolMissing"

\* C13: with no argument, once the lookup is over file_ is the first of
\* home, the environment variable's path (only when the variable is set)
\* and the bundled default that is a regular file; when none is, the run
\* has ended as NoMappingFileFound with exit status 0 and no file was opened.
Candidates ==
    <<"home">> \o (IF environ.some THEN <<environ.v>> ELSE <<>>) \o <<"bundled">>
C13_FirstExistingDefault ==
    (~argv.some /\ Looked) =>
        /\ \A i \in DOMAIN Candidates :
             (fs[Candidates[i]] /\ \A j \in 1..(i - 1) : ~fs[Candidates[j]]) =>
                 /\ file_ = [some |-> TRUE, v |-> Candidates[i]]
                 /\ Probed = SubSeq(Candidates, 1, i)
        /\ (\A i \in DOMAIN Candidates : ~fs[Candidates[i]]) =>
             /\ file_ = NoPath /\ pc = "done"
             /\ outcome = "NoMappingFileFound" /\ exitcode = 0
             /\ Probed = Candidates /\ NoneOf({"open", "list", "get", "set"})

C13_Witness ==
    /\ ~argv.some /\ environ.some /\ Looked
    /\ ~fs["home"] /\ fs["env"] /\ fs["bundled"]
    /\ file_ = [some |-> TRUE, v |-> "env"]

C13_WitnessUnset ==
    /\ ~argv.some /\ ~environ.some /\ Looked
    /\ ~fs["home"] /\ fs["env"] /\ ~fs["bundled"]
    /\ outcome = "NoMappingFileFound"

\* C19: with an argument that is not a regular file, the run has ended as
\* NoMappingFileFound with exit status 0 after asking about that path only:
\* no default location was tried and nothing was opened, listed, read or
\* written; with an argument, no default location is ever asked about.
C19_ExplicitPathNoFallback ==
    (argv.some /\ Looked) =>
        /\ Probed = <<argv.v>>
        /\ ~fs[argv.v] =>
             /\ file_ = NoPath /\ pc = "done"
             /\ outcome = "NoMappingFileFound" /\ exitcode = 0
             /\ NoneOf({"open", "list", "get", "set", "input"})
        /\ fs[argv.v] => file_ = argv

C19_Witness ==
    /\ argv.some /\ ~fs["arg"] /\ fs["home"] /\ fs["env"] /\ fs["bundled"]
    /\ environ.some /\ outcome = "NoMappingFileFound"

\* C16: when apply_map_ has run, the calls issued are exactly one set per
\* rule, in document order, each with the handle and the rule's property,
\* parameter and expected value and nothing of the label; it has returned
\* with nothing raised whatever exit status the set commands had.
C16_OneSetPerRule ==
    pc # "apply" =>
        /\ pc = "applied" /\ outcome = "" /\ exitcode = -1
        /\ Len(log) = Len(TheMap)
        /\ \A i \in DOMAIN TheMap :
             /\ log[i].op = "set" /\ log[i].id = id_.v
             /\ log[i].prop = TheMap[i].prop /\ log[i].param = TheMap[i].param
             /\ log[i].value = TheMap[i].expected
             /\ log[i].text = "" /\ log[i].stdout = <<>>

C16_Witness ==
    /\ pc = "applied" /\ TheMap = <<R1, R2, R1>>
    /\ log[1].rc = 1 /\ log[2].rc = 0 /\ log[3].rc = 1
    /\ log[2].value = <<" ">> /\ id_.v = <<"8">>

\* C17: a run of configure_map_ whose latest answer was "y" and that has
\* stopped has stopped Converged, after one set per rule was issued with
\* the handle and the rule's property, parameter and expected value.
C17_AcceptedRunConverges ==
    (applies >= 1 /\ b_ = "y" /\ pc = "done") =>
        /\ outcome = "Converged"
        /\ \A i \in DOMAIN TheMap :
             \E k \in DOMAIN log : log[k] = SetEv(id_.v, TheMap[i])

\* C18: the device listing is asked for at most once, before any get or
\* set; every get and set carries the handle that listing resolved to; and
\* no step of configure_map_ changes the handle or the document.
HandleUsed ==
    /\ CountOp(log, "list") <= 1
    /\ \A i \in DOMAIN log :
         log[i].op \in {"get", "set"} =>
             /\ id_.some /\ log[i].id = id_.v
             /\ id_ = get_device_id_(listing, dict_.name, dict_.type)
             /\ \E j \in 1..(i - 1) : log[j].op = "list"
HandleKept ==
    pc \in {"configure", "prompt"} =>
        /\ CountOp(log', "list") = CountOp(log, "list")
        /\ id_' = id_ /\ dict_' = dict_ /\ listing' = listing
C18_OneHandlePerRun == []HandleUsed /\ [][HandleKept]_vars

C18_Witness ==
    /\ pc = "done" /\ outcome = "Abandoned" /\ prompts = 3
    /\ CountOp(log, "list") = 1 /\ CountOp(log, "get") = 2
    /\ id_ = Some(<<"7">>) /\ Len(listing) = 2

====
